---- MODULE Spec2Model ----
(***************************************************************************)
(* Model of the financial-exclusion analysis pipeline of src/data.ipynb:   *)
(* preprocess_data (imputation, encoding, normalization, concatenation,    *)
(* reduction), the two score calculators, cluster_financial_exclusion and  *)
(* train_classification_models.                                            *)
(*                                                                         *)
(* Numbers are exact rationals <<numerator, denominator>>; the missing     *)
(* value NaN is <<0, 0>>.  A column name is a sequence of word tokens, so  *)
(* that `'transaction' in col.lower()` and `col + '_encoded'` are computed *)
(* on the name and not looked up.  A table is a record with a row index    *)
(* (the pandas index labels) and a sequence of columns.                    *)
(***************************************************************************)
EXTENDS Integers, Sequences, FiniteSets, TLC

\* ------------------------------------------------------------------ bounds
SmallRows == 5
ManyRows == 11
FreeRows == 2
MaxComponents == 2
FreeClusterRows == 2
MaxBenchRows == 5
NSeeds == 2

\* ------------------------------------------------------- program constants
CardinalityThreshold == 10
NClusters == 2
SplitSeed == 42
TransactionWeight == <<6, 10>>
SavingsWeight == <<4, 10>>
EducationWeight == <<6, 10>>
IncomeWeight == <<4, 10>>

\* ----------------------------------------------------- rational arithmetic
NaN == <<0, 0>>
IsNaN(x) == x[2] = 0

Abs(i) == IF i < 0 THEN -i ELSE i

RECURSIVE GCD(_, _)
GCD(a, b) == IF b = 0 THEN a ELSE GCD(b, a % b)

Rat(n, d) ==
    IF n = 0 THEN <<0, 1>>
    ELSE LET g == GCD(Abs(n), Abs(d))
             s == IF d < 0 THEN -1 ELSE 1
         IN <<(s * n) \div g, (s * d) \div g>>

Num(i) == <<i, 1>>

RAdd(a, b) == IF IsNaN(a) \/ IsNaN(b) THEN NaN
              ELSE Rat(a[1] * b[2] + b[1] * a[2], a[2] * b[2])
RSub(a, b) == IF IsNaN(a) \/ IsNaN(b) THEN NaN
              ELSE Rat(a[1] * b[2] - b[1] * a[2], a[2] * b[2])
RMul(a, b) == IF IsNaN(a) \/ IsNaN(b) THEN NaN
              ELSE Rat(a[1] * b[1], a[2] * b[2])
RDiv(a, b) == IF IsNaN(a) \/ IsNaN(b) THEN NaN
              ELSE Rat(a[1] * b[2], a[2] * b[1])
RLt(a, b) == a[1] * b[2] < b[1] * a[2]
RLe(a, b) == a[1] * b[2] <= b[1] * a[2]

\* ------------------------------------------------------- sequence helpers
Range(s) == {s[i] : i \in 1..Len(s)}

RECURSIVE SeqSum(_)
SeqSum(s) == IF s = <<>> THEN <<0, 1>> ELSE RAdd(Head(s), SeqSum(Tail(s)))

RECURSIVE Flatten(_)
Flatten(ss) == IF ss = <<>> THEN <<>> ELSE Head(ss) \o Flatten(Tail(ss))

Positions(s, x) == {i \in 1..Len(s) : s[i] = x}

\* ------------------------------------------------------------ strings
\* Python compares str values by code point; the categorical values of the
\* model are listed here in that order (upper case before lower case).
NA == "<NA>"
SortedStrings ==
    <<"None", "Primary", "Secondary", "Tertiary", "University",
      "c01", "c02", "c03", "c04", "c05", "c06", "c07", "c08", "c09", "c10",
      "c11", "c12", "c13">>
StrRank(s) == CHOOSE i \in 1..Len(SortedStrings) : SortedStrings[i] = s
StrLt(a, b) == StrRank(a) < StrRank(b)

\* str.lower() on the word tokens of the column names of the model
Lower(tok) ==
    CASE tok = "Transaction" -> "transaction"
      [] tok = "Savings" -> "savings"
      [] OTHER -> tok
\* `word in col.lower()`
NameContains(name, word) == \E i \in 1..Len(name) : Lower(name[i]) = word
\* `col + '_encoded'`
EncodedName(name) == Append(name, "encoded")

\* --------------------------------------------------------------- tables
ColTransaction == <<"Transaction", "amt">>
ColSavings == <<"savings", "amt">>
ColEducation == <<"education">>
ColQuintile == <<"quintile">>
ColCounty == <<"county">>
ColSavingsGroup == <<"Savings", "group">>

IsNumericDtype(dt) == dt \in {"int64", "float64"}
IsMissing(col, i) ==
    IF col.dtype = "object" THEN col.cells[i] = NA ELSE IsNaN(col.cells[i])
HasMissing(col) == \E i \in 1..Len(col.cells) : IsMissing(col, i)
AllMissing(col) == \A i \in 1..Len(col.cells) : IsMissing(col, i)
NRows(t) == Len(t.index)
ColumnNames(t) == [j \in 1..Len(t.columns) |-> t.columns[j].name]
HasColumn(t, name) == \E j \in 1..Len(t.columns) : t.columns[j].name = name
Column(t, name) ==
    t.columns[CHOOSE j \in 1..Len(t.columns) : t.columns[j].name = name]
RangeIndex(n) == [i \in 1..n |-> i - 1]

\* pd.read_csv gives a column without missing integers the dtype int64, a
\* numeric column with missing entries float64 and a text column object.
NumericColumn(name, cells) ==
    [name |-> name,
     dtype |-> IF \E i \in 1..Len(cells) : IsNaN(cells[i])
               THEN "float64" ELSE "int64",
     cells |-> cells]
ObjectColumn(name, cells) == [name |-> name, dtype |-> "object", cells |-> cells]

VARIABLES pc, err, loaded, raw_data, numeric_columns, categorical_columns,
          categorical_encoded, high_cardinality_columns, numeric_scaled,
          processed_data, kmeans,
          X_train, X_test, scaler, X_train_scaled, X_test_scaled,
          models, results, model_index, run, first_results, libraries

preprocessVars == <<loaded, raw_data, numeric_columns, categorical_columns,
                    categorical_encoded, high_cardinality_columns,
                    numeric_scaled, kmeans>>
benchVars == <<X_train, X_test, scaler, X_train_scaled, X_test_scaled,
               models, results, model_index, run, first_results, libraries>>
vars == <<pc, err, processed_data, preprocessVars, benchVars>>

\* ------------------------------------------------------------ the inputs
RowCounts == {SmallRows, ManyRows}

\* Row labels of the table handed to preprocess_data: the default index of
\* pd.read_csv, or the index of a table a caller has filtered or reordered.
IndexChoices(n) ==
    { RangeIndex(n), [i \in 1..n |-> i], [i \in 1..n |-> n - i] }

TransactionCellChoices == {NaN, Num(10), Num(20)}
TransactionChoices(n) ==
    { [i \in 1..n |-> IF i <= FreeRows THEN f[i]
                      ELSE IF i = 3 THEN m ELSE Num(10 * i)] :
        f \in [1..FreeRows -> TransactionCellChoices], m \in {NaN, Num(30)} }
    \cup { [i \in 1..n |-> NaN], [i \in 1..n |-> Num(7)] }
SavingsChoices(n) ==
    { [i \in 1..n |-> Num(i)], [i \in 1..n |-> Num(100 - (i % 3))] }
QuintileChoices(n) ==
    { [i \in 1..n |-> Num(((i + 1) % 5) + 1)] }
EducationChoices(n) ==
    { [i \in 1..n |-> <<"Primary", "Secondary", "Secondary", "Tertiary", NA>>[((i - 1) % 5) + 1]],
      [i \in 1..n |-> <<"University", "None", "Primary">>[((i - 1) % 3) + 1]],
      [i \in 1..n |-> <<"Tertiary", NA, "Primary", "Primary", "Tertiary">>[((i - 1) % 5) + 1]] }
CountyChoices(n) ==
    { [i \in 1..n |-> SortedStrings[5 + i]],
      [i \in 1..n |-> IF i = 2 THEN NA ELSE SortedStrings[6 + (i % 2)]] }
CountyNames == {ColCounty, ColSavingsGroup}

NoTable == [index |-> <<>>, columns |-> <<>>]
NoScaler == [mean_ |-> <<>>, var_ |-> <<>>]
NoResults == [name \in {} |-> 0]

\* train_classification_models has not been called
BenchIdle ==
    /\ X_train = <<>>
    /\ X_test = <<>>
    /\ scaler = NoScaler
    /\ X_train_scaled = <<>>
    /\ X_test_scaled = <<>>
    /\ models = NoResults
    /\ results = NoResults
    /\ model_index = 0
    /\ run = 0
    /\ first_results = NoResults

\* The library builds the notebook can be run with (it pins no version).
\* TreeExplainer.shap_values gives, for a classifier, a list with one
\* (rows x features) array per class in the older shap releases and one
\* (rows x features x classes) array in the newer ones; indexing a pandas
\* Index with a 2-D key gives a 2-D array in pandas 1 and raises ValueError
\* in pandas 2.
Builds ==
    [per_class : {"list", "last axis"}, index_2d : {"ndarray", "ValueError"}]

NoKMeans == [fitted |-> FALSE, n_features_in |-> 0, feature_names_in_ |-> <<>>]

\* FinancialExclusionAnalysis.__init__ / load_data
Init ==
    /\ \E n \in RowCounts :
         \E ix \in IndexChoices(n), t \in TransactionChoices(n),
            e \in EducationChoices(n), s \in SavingsChoices(n),
            q \in QuintileChoices(n), c \in CountyChoices(n),
            cn \in CountyNames :
           raw_data = [index |-> ix,
                       columns |-> << NumericColumn(ColTransaction, t),
                                      ObjectColumn(ColEducation, e),
                                      NumericColumn(ColSavings, s),
                                      NumericColumn(ColQuintile, q),
                                      ObjectColumn(cn, c) >>]
    /\ loaded = raw_data
    /\ pc = "loaded"
    /\ err = "none"
    /\ numeric_columns = <<>>
    /\ categorical_columns = <<>>
    /\ categorical_encoded = NoTable
    /\ high_cardinality_columns = <<>>
    /\ numeric_scaled = NoTable
    /\ processed_data = NoTable
    /\ kmeans = NoKMeans
    /\ BenchIdle
    \* no step of preprocessing, scoring or clustering depends on the build
    /\ libraries = [per_class |-> "list", index_2d |-> "ndarray"]

\* --------------------------------------------------------- 1. imputation
\* DataFrame.select_dtypes(include=[...]).columns
SelectDtypes(t, numeric) ==
    LET keep(c) == IF numeric THEN IsNumericDtype(c.dtype) ELSE c.dtype = "object"
        sel == SelectSeq(t.columns, keep)
    IN [j \in 1..Len(sel) |-> sel[j].name]

NonMissingNumbers(cells) == SelectSeq(cells, LAMBDA x : ~IsNaN(x))

\* Variant of Median that takes the upper of the two middle values
MedianUpper(cells) ==
    LET s == SortSeq(NonMissingNumbers(cells), RLt)
    IN s[(Len(s) \div 2) + 1]

\* SimpleImputer(strategy='median'): the median of the non-missing values,
\* the mean of the two middle ones when their count is even
Median(cells) ==
    LET s == SortSeq(NonMissingNumbers(cells), RLt)
        k == Len(s)
    IN IF k % 2 = 1 THEN s[(k + 1) \div 2]
       ELSE RDiv(RAdd(s[k \div 2], s[(k \div 2) + 1]), Num(2))

\* SimpleImputer(strategy='most_frequent'): the most frequent non-missing
\* value, the smallest of them when several are equally frequent
MostFrequent(cells) ==
    LET vals == Range(cells) \ {NA}
        count(v) == Cardinality(Positions(cells, v))
        best == {v \in vals : \A w \in vals : count(w) <= count(v)}
    IN CHOOSE v \in best : \A w \in best : ~StrLt(w, v)

ImputeNumericColumn(col) ==
    LET m == Median(col.cells)
    IN [col EXCEPT !.dtype = "float64",
                   !.cells = [i \in 1..Len(col.cells) |->
                                IF IsNaN(col.cells[i]) THEN m ELSE col.cells[i]]]

ImputeCategoricalColumn(col) ==
    LET m == MostFrequent(col.cells)
    IN [col EXCEPT !.cells = [i \in 1..Len(col.cells) |->
                                IF col.cells[i] = NA THEN m ELSE col.cells[i]]]

\* data[numeric_columns] = numeric_imputer.fit_transform(data[numeric_columns])
ImputeNumeric(t) ==
    [t EXCEPT !.columns = [j \in 1..Len(t.columns) |->
        IF IsNumericDtype(t.columns[j].dtype)
        THEN ImputeNumericColumn(t.columns[j]) ELSE t.columns[j]]]

\* data[categorical_columns] = categorical_imputer.fit_transform(...)
ImputeCategorical(t) ==
    [t EXCEPT !.columns = [j \in 1..Len(t.columns) |->
        IF t.columns[j].dtype = "object"
        THEN ImputeCategoricalColumn(t.columns[j]) ELSE t.columns[j]]]

\* SimpleImputer drops a column that has no observed value, so the array it
\* returns has fewer columns than the key it is assigned to: ValueError.
EmptyColumns(t, numeric) ==
    {j \in 1..Len(t.columns) :
        /\ (IF numeric THEN IsNumericDtype(t.columns[j].dtype)
                       ELSE t.columns[j].dtype = "object")
        /\ AllMissing(t.columns[j])}

Impute ==
    /\ pc = "loaded"
    /\ numeric_columns' = SelectDtypes(raw_data, TRUE)
    /\ categorical_columns' = SelectDtypes(raw_data, FALSE)
    /\ IF EmptyColumns(raw_data, TRUE) # {}
       THEN /\ pc' = "error"
            /\ err' = "impute: ValueError"
            /\ raw_data' = raw_data
       ELSE IF EmptyColumns(raw_data, FALSE) # {}
       THEN /\ pc' = "error"
            /\ err' = "impute: ValueError"
            /\ raw_data' = ImputeNumeric(raw_data)
       ELSE /\ pc' = "imputed"
            /\ err' = err
            /\ raw_data' = ImputeCategorical(ImputeNumeric(raw_data))
    /\ UNCHANGED <<loaded, categorical_encoded, high_cardinality_columns,
                   numeric_scaled, processed_data, kmeans, benchVars>>

\* ----------------------------------------------------------- 2. encoding
RECURSIVE SortedStringSeq(_)
SortedStringSeq(S) ==
    IF S = {} THEN <<>>
    ELSE LET m == CHOOSE v \in S : \A w \in S : ~StrLt(w, v)
         IN <<m>> \o SortedStringSeq(S \ {m})

\* Series.nunique(): the number of distinct non-missing values
NUnique(col) == Cardinality(Range(col.cells) \ {NA})

\* Variant of DummiesOf that leaves out the indicator of the first category
DummiesOfDropFirst(col) ==
    LET cats == Tail(SortedStringSeq(Range(col.cells) \ {NA}))
    IN [k \in 1..Len(cats) |->
          [name |-> Append(col.name, cats[k]),
           dtype |-> "bool",
           source |-> col.name,
           cells |-> [i \in 1..Len(col.cells) |->
                        IF col.cells[i] = cats[k] THEN Num(1) ELSE Num(0)]]]

\* pd.get_dummies(frame): every object column of the frame is replaced by
\* one indicator column per distinct non-missing value, named col_value
DummiesOf(col) ==
    LET cats == SortedStringSeq(Range(col.cells) \ {NA})
    IN [k \in 1..Len(cats) |->
          [name |-> Append(col.name, cats[k]),
           dtype |-> "bool",
           source |-> col.name,
           cells |-> [i \in 1..Len(col.cells) |->
                        IF col.cells[i] = cats[k] THEN Num(1) ELSE Num(0)]]]

GetDummies(t, names) ==
    [index |-> t.index,
     columns |-> Flatten([j \in 1..Len(names) |-> DummiesOf(Column(t, names[j]))])]

\* [col for col in categorical_columns if data[col].nunique() > 10]
HighCardinality(t, names) ==
    SelectSeq(names, LAMBDA nm : NUnique(Column(t, nm)) > CardinalityThreshold)

\* LabelEncoder.fit_transform: the position of the value among the sorted
\* distinct values, counted from 0
LabelEncode(col) ==
    LET classes == SortedStringSeq(Range(col.cells))
    IN [name |-> EncodedName(col.name),
        dtype |-> "int64",
        cells |-> [i \in 1..Len(col.cells) |->
                     Num((CHOOSE k \in 1..Len(classes) : classes[k] = col.cells[i]) - 1)]]

Encode ==
    /\ pc = "imputed"
    /\ categorical_encoded' = GetDummies(raw_data, categorical_columns)
    /\ LET high == HighCardinality(raw_data, categorical_columns)
       IN /\ high_cardinality_columns' = high
          /\ raw_data' = [raw_data EXCEPT !.columns =
                 raw_data.columns \o
                 [j \in 1..Len(high) |-> LabelEncode(Column(raw_data, high[j]))]]
    /\ pc' = "encoded"
    /\ UNCHANGED <<err, loaded, numeric_columns, categorical_columns,
                   numeric_scaled, processed_data, kmeans, benchVars>>

\* ------------------------------------------------------ 3. normalization
RMin(s) == CHOOSE x \in Range(s) : \A y \in Range(s) : RLe(x, y)
RMax(s) == CHOOSE x \in Range(s) : \A y \in Range(s) : RLe(y, x)

\* Variant of MinMaxScale that maps a column of zero range to 1
MinMaxScaleOne(cells) ==
    LET nn == NonMissingNumbers(cells)
    IN IF nn = <<>> THEN cells
       ELSE LET mn == RMin(nn)
                mx == RMax(nn)
                rng == RSub(mx, mn)
            IN [i \in 1..Len(cells) |->
                  IF IsNaN(cells[i]) THEN NaN
                  ELSE IF rng = Num(0) THEN Num(1)
                  ELSE RDiv(RSub(cells[i], mn), rng)]

\* MinMaxScaler().fit_transform on one column: missing values are ignored
\* by fit and kept by transform; a zero range is replaced by 1
MinMaxScale(cells) ==
    LET nn == NonMissingNumbers(cells)
    IN IF nn = <<>> THEN cells
       ELSE LET mn == RMin(nn)
                mx == RMax(nn)
                rng == RSub(mx, mn)
                scale == IF rng = Num(0) THEN Num(1) ELSE RDiv(Num(1), rng)
            IN [i \in 1..Len(cells) |-> RMul(RSub(cells[i], mn), scale)]

Normalize ==
    /\ pc = "encoded"
    /\ IF numeric_columns = <<>>
       THEN /\ pc' = "error"
            /\ err' = "normalize: ValueError"
            /\ numeric_scaled' = numeric_scaled
       ELSE /\ pc' = "normalized"
            /\ err' = err
            /\ numeric_scaled' =
                 [index |-> RangeIndex(NRows(raw_data)),
                  columns |-> [j \in 1..Len(numeric_columns) |->
                     LET col == Column(raw_data, numeric_columns[j])
                     IN [name |-> col.name, dtype |-> "float64",
                         cells |-> MinMaxScale(col.cells)]]]
    /\ UNCHANGED <<loaded, raw_data, numeric_columns, categorical_columns,
                   categorical_encoded, high_cardinality_columns,
                   processed_data, kmeans, benchVars>>

\* ------------------------------------------------------- concatenation
\* Position of a row label in an index, 0 when the label is absent
PosIn(index, label) ==
    IF \E p \in 1..Len(index) : index[p] = label
    THEN CHOOSE p \in 1..Len(index) : index[p] = label
    ELSE 0

\* The row labels of pd.concat(axis=1): the labels of the first frame, then
\* the labels of the later frames that are not among them yet
RECURSIVE UnionIndex(_)
UnionIndex(indexes) ==
    IF Len(indexes) = 1 THEN indexes[1]
    ELSE LET front == UnionIndex(SubSeq(indexes, 1, Len(indexes) - 1))
             last == indexes[Len(indexes)]
         IN front \o SelectSeq(last, LAMBDA l : PosIn(front, l) = 0)

\* A frame's columns laid out on the labels of `index`; a label the frame
\* does not have gives a missing cell
Reindex(frame, index) ==
    [j \in 1..Len(frame.columns) |->
       [frame.columns[j] EXCEPT !.cells =
          [i \in 1..Len(index) |->
             LET p == PosIn(frame.index, index[i])
             IN IF p = 0 THEN NaN ELSE frame.columns[j].cells[p]]]]

\* pd.concat([numeric_scaled, categorical_encoded, data[[..._encoded]]], axis=1)
\* src[i] records, for row i of the result, the position of the row of each
\* frame that supplied its cells (0: none).
Concat(num, cat, enc) ==
    LET index == UnionIndex(<<num.index, cat.index, enc.index>>)
    IN [index |-> index,
        columns |-> Reindex(num, index) \o Reindex(cat, index) \o Reindex(enc, index),
        src |-> [i \in 1..Len(index) |->
                   [num |-> PosIn(num.index, index[i]),
                    cat |-> PosIn(cat.index, index[i]),
                    enc |-> PosIn(enc.index, index[i])]]]

\* data[[col + '_encoded' for col in high_cardinality_columns]]
EncodedFrame(t, high) ==
    [index |-> t.index,
     columns |-> [j \in 1..Len(high) |-> Column(t, EncodedName(high[j]))]]

Combine ==
    /\ pc = "normalized"
    /\ processed_data' = Concat(numeric_scaled, categorical_encoded,
                                EncodedFrame(raw_data, high_cardinality_columns))
    /\ pc' = "combined"
    /\ UNCHANGED <<err, loaded, raw_data, numeric_columns, categorical_columns,
                   categorical_encoded, high_cardinality_columns,
                   numeric_scaled, kmeans, benchVars>>

\* ------------------------------------------------------------ 4. reduction
Min2(a, b) == IF a < b THEN a ELSE b

\* A cell of a principal-component column is not computed: it is kept as the
\* (component, source row) it stands for.
IsComponent(col) == col.dtype = "component"
CellIsNaN(col, i) == ~IsComponent(col) /\ IsNaN(col.cells[i])
FrameHasNaN(t) ==
    \E j \in 1..Len(t.columns) : \E i \in 1..Len(t.columns[j].cells) :
        CellIsNaN(t.columns[j], i)

\* pd.DataFrame(pca.fit_transform(X), columns=[f'PC{i+1}' ...]); the number
\* of components PCA(n_components=0.95) keeps depends on the data
PCAFrame(t, k) ==
    [index |-> RangeIndex(NRows(t)),
     columns |-> [j \in 1..k |->
        [name |-> <<"PC" \o ToString(j)>>,
         dtype |-> "component",
         cells |-> [i \in 1..NRows(t) |-> [component |-> j, row |-> t.src[i]]]]],
     src |-> t.src]

Reduce ==
    /\ pc = "combined"
    /\ IF FrameHasNaN(processed_data)
       THEN /\ pc' = "error"
            /\ err' = "pca: ValueError"
            /\ processed_data' = processed_data
       ELSE /\ \E k \in 1..Min2(MaxComponents,
                                Min2(NRows(processed_data), Len(processed_data.columns))) :
                 processed_data' = PCAFrame(processed_data, k)
            /\ pc' = "reduced"
            /\ err' = err
    /\ UNCHANGED <<loaded, raw_data, numeric_columns, categorical_columns,
                   categorical_encoded, high_cardinality_columns,
                   numeric_scaled, kmeans, benchVars>>

\* ------------------------------------------------------- 5./6. the scores
ColEngagement == <<"financial", "engagement", "score">>
ColLiteracy == <<"financial", "literacy", "score">>
ColCluster == <<"exclusion", "cluster">>
ColLabel == <<"financial", "exclusion", "label">>

\* processed_data[name] = values
AddColumn(t, name, dtype, cells) ==
    [t EXCEPT !.columns = Append(t.columns, [name |-> name, dtype |-> dtype, cells |-> cells])]

\* [col for col in data.columns if word in col.lower()]
ColumnsContaining(t, word) ==
    SelectSeq(ColumnNames(t), LAMBDA nm : NameContains(nm, word))

\* MinMaxScaler needs at least one column and numbers in every column
CanScale(t, names) ==
    /\ names # <<>>
    /\ \A j \in 1..Len(names) : IsNumericDtype(Column(t, names[j]).dtype)

\* scaler.fit_transform(data[names]).mean(axis=1)
NormalizedMean(t, names) ==
    LET scaled == [j \in 1..Len(names) |-> MinMaxScale(Column(t, names[j]).cells)]
    IN [i \in 1..NRows(t) |->
          RDiv(SeqSum([j \in 1..Len(names) |-> scaled[j][i]]), Num(Len(names)))]

EngagementScore(t) ==
    LET mt == NormalizedMean(t, ColumnsContaining(t, "transaction"))
        ms == NormalizedMean(t, ColumnsContaining(t, "savings"))
    IN [i \in 1..NRows(t) |->
          RAdd(RMul(TransactionWeight, mt[i]), RMul(SavingsWeight, ms[i]))]

CalculateEngagement ==
    /\ pc = "reduced"
    /\ IF /\ CanScale(raw_data, ColumnsContaining(raw_data, "transaction"))
          /\ CanScale(raw_data, ColumnsContaining(raw_data, "savings"))
          /\ NRows(raw_data) = NRows(processed_data)
       THEN /\ processed_data' = AddColumn(processed_data, ColEngagement,
                                           "float64", EngagementScore(raw_data))
            /\ pc' = "engagement"
            /\ err' = err
       ELSE /\ processed_data' = processed_data
            /\ pc' = "error"
            /\ err' = "engagement: ValueError"
    /\ UNCHANGED <<loaded, raw_data, numeric_columns, categorical_columns,
                   categorical_encoded, high_cardinality_columns,
                   numeric_scaled, kmeans, benchVars>>

education_mapping ==
    [v \in {"Primary", "Secondary", "Tertiary", "University"} |->
       CASE v = "Primary" -> 1 [] v = "Secondary" -> 2
         [] v = "Tertiary" -> 3 [] v = "University" -> 4]

\* Series.map(dict): a value that is not a key of the dict becomes NaN
MapEducation(cells) ==
    [i \in 1..Len(cells) |->
       IF cells[i] \in DOMAIN education_mapping
       THEN Num(education_mapping[cells[i]]) ELSE NaN]

LiteracyScore(t) ==
    LET ne == MinMaxScale(MapEducation(Column(t, ColEducation).cells))
        ni == MinMaxScale(Column(t, ColQuintile).cells)
    IN [i \in 1..NRows(t) |->
          RAdd(RMul(EducationWeight, ne[i]), RMul(IncomeWeight, ni[i]))]

CalculateLiteracy ==
    /\ pc = "engagement"
    /\ IF /\ HasColumn(raw_data, ColEducation)
          /\ HasColumn(raw_data, ColQuintile)
          /\ IsNumericDtype(Column(raw_data, ColQuintile).dtype)
          /\ NRows(raw_data) = NRows(processed_data)
       THEN /\ processed_data' = AddColumn(processed_data, ColLiteracy,
                                           "float64", LiteracyScore(raw_data))
            /\ pc' = "literacy"
            /\ err' = err
       ELSE /\ processed_data' = processed_data
            /\ pc' = "error"
            /\ err' = "literacy: error"
    /\ UNCHANGED <<loaded, raw_data, numeric_columns, categorical_columns,
                   categorical_encoded, high_cardinality_columns,
                   numeric_scaled, kmeans, benchVars>>

\* ------------------------------------------------------------ clustering
\* One row of a frame as the vector of its cells
FeatureRow(t, i) == [j \in 1..Len(t.columns) |-> t.columns[j].cells[i]]

\* The cluster ids KMeans(n_clusters=2).fit_predict can give the rows: rows
\* with equal cells share an id.  Rows past the first FreeClusterRows are
\* put in one cluster to bound the choice.
KMeansLabelings(t) ==
    LET free == Min2(NRows(t), FreeClusterRows)
        candidates ==
            { [i \in 1..NRows(t) |-> IF i <= free THEN f[i] ELSE rest] :
                f \in [1..free -> 0..(NClusters - 1)], rest \in 0..(NClusters - 1) }
    IN {l \in candidates :
          \A i, j \in 1..NRows(t) :
             FeatureRow(t, i) = FeatureRow(t, j) => l[i] = l[j]}

\* KMeans.fit: the estimator remembers the features it was fitted on
KMeansFit(t, labels) ==
    [fitted |-> TRUE,
     n_features_in |-> Len(t.columns),
     feature_names_in_ |-> ColumnNames(t),
     X |-> [i \in 1..NRows(t) |-> FeatureRow(t, i)],
     labels_ |-> labels]

\* KMeans.predict on one vector: ValueError (-1 here) unless the vector has
\* as many features as the estimator was fitted on; a fitted row is given
\* the id of its nearest centre, which is the id fit_predict gave it
KMeansPredict(km, vector) ==
    IF Len(vector) # km.n_features_in THEN -1
    ELSE km.labels_[CHOOSE i \in 1..Len(km.X) : km.X[i] = vector]

\* Series.idxmin(): the label of the first row holding the minimum
IdxMin(t, name) ==
    LET cells == Column(t, name).cells
        p == CHOOSE i \in 1..Len(cells) :
               /\ \A j \in 1..Len(cells) : RLe(cells[i], cells[j])
               /\ \A j \in 1..(i - 1) : RLt(cells[i], cells[j])
    IN t.index[p]

ClusterFinancialExclusion ==
    /\ pc = "literacy"
    /\ IF FrameHasNaN(processed_data) \/ NRows(processed_data) < NClusters
       THEN /\ pc' = "error"
            /\ err' = "cluster: ValueError in fit_predict"
            /\ UNCHANGED <<processed_data, kmeans>>
       ELSE \E labels \in KMeansLabelings(processed_data) :
            LET km == KMeansFit(processed_data, labels)
                withCluster == AddColumn(processed_data, ColCluster, "int64",
                                         [i \in 1..NRows(processed_data) |-> Num(labels[i])])
                row == PosIn(withCluster.index, IdxMin(withCluster, ColEngagement))
                excluded == KMeansPredict(km, FeatureRow(withCluster, row))
            IN /\ kmeans' = km
               /\ IF excluded = -1
                  THEN /\ processed_data' = withCluster
                       /\ pc' = "error"
                       /\ err' = "cluster: ValueError in predict"
                  ELSE /\ processed_data' =
                            AddColumn(withCluster, ColLabel, "bool",
                                      [i \in 1..NRows(withCluster) |-> labels[i] = excluded])
                       /\ pc' = "clustered"
                       /\ err' = err
    /\ UNCHANGED <<loaded, raw_data, numeric_columns, categorical_columns,
                   categorical_encoded, high_cardinality_columns, numeric_scaled, benchVars>>

\* ----------------------------------------------- train_classification_models
\* Variant of FeatureNames that also leaves out the cluster id
FeatureNamesWithoutCluster(t) ==
    SelectSeq(ColumnNames(t), LAMBDA nm : nm \notin {ColLabel, ColCluster})

\* processed_data.drop('financial_exclusion_label', axis=1).columns
FeatureNames(t) == SelectSeq(ColumnNames(t), LAMBDA nm : nm # ColLabel)
\* One row of X, and y
FeatureVector(t, i) ==
    LET names == FeatureNames(t)
    IN [j \in 1..Len(names) |-> Column(t, names[j]).cells[i]]
Target(t, i) == Column(t, ColLabel).cells[i]

\* rng.permutation(n) of the generator seeded with `seed`.  The generator is
\* not reproduced: this is one fixed shuffle for each (seed, n), the rows
\* ordered by a key that depends on both.
ShuffleKey(seed, n, i) == ((i * (seed + n)) + (i * i * 3)) % 13
Permutation(seed, n) ==
    SortSeq([i \in 1..n |-> i],
            LAMBDA a, b : \/ ShuffleKey(seed, n, a) < ShuffleKey(seed, n, b)
                          \/ /\ ShuffleKey(seed, n, a) = ShuffleKey(seed, n, b)
                             /\ a < b)

\* train_test_split(X, y, test_size=0.2, random_state=42): n_test is
\* ceil(0.2 * n), the test rows are the first n_test of the shuffle and the
\* training rows the rest
NTest(n) == (n + 4) \div 5
TrainTestSplit(n, seed) ==
    LET perm == Permutation(seed, n)
    IN [test |-> SubSeq(perm, 1, NTest(n)),
        train |-> SubSeq(perm, NTest(n) + 1, n)]

\* StandardScaler.fit: per feature the mean and the population variance of
\* the rows it is given
StandardScalerFit(rows) ==
    LET n == Len(rows)
        width == Len(rows[1])
        mean(j) == RDiv(SeqSum([i \in 1..n |-> rows[i][j]]), Num(n))
        var(j) == RDiv(SeqSum([i \in 1..n |->
                         RMul(RSub(rows[i][j], mean(j)), RSub(rows[i][j], mean(j)))]),
                       Num(n))
    IN [mean_ |-> [j \in 1..width |-> mean(j)],
        var_ |-> [j \in 1..width |-> var(j)]]

\* StandardScaler.transform: (x - mean) / sqrt(var), a zero variance counted
\* as 1.  The square root is not taken: a scaled cell is kept as its
\* deviation from the mean together with the variance it is divided by.
StandardScalerTransform(sc, rows) ==
    [i \in 1..Len(rows) |->
       [j \in 1..Len(rows[i]) |->
          [dev |-> RSub(rows[i][j], sc.mean_[j]),
           var |-> IF sc.var_[j] = Num(0) THEN Num(1) ELSE sc.var_[j]]]]

\* Variant of ScaleTest that fits the scaler again on the rows it is given
ScaleTestRefit(sc, rows) == StandardScalerTransform(StandardScalerFit(rows), rows)

\* X_test_scaled = scaler.transform(X_test)
ScaleTest(sc, rows) == StandardScalerTransform(sc, rows)

\* X, y, the split and the scaler (the values are bound once each)
SplitAndScale ==
    /\ pc = "labeled"
    /\ \E split \in {TrainTestSplit(NRows(processed_data), SplitSeed)} :
       \E train \in {[i \in 1..Len(split.train) |->
                         FeatureVector(processed_data, split.train[i])]} :
       \E test \in {[i \in 1..Len(split.test) |->
                        FeatureVector(processed_data, split.test[i])]} :
       \E sc \in {StandardScalerFit(train)} :
          /\ X_train' = split.train
          /\ X_test' = split.test
          /\ scaler' = sc
          /\ X_train_scaled' = StandardScalerTransform(sc, train)
          /\ X_test_scaled' = ScaleTest(sc, test)
    /\ models' = NoResults
    /\ results' = NoResults
    /\ model_index' = 1
    /\ run' = run + 1
    /\ pc' = "training"
    /\ UNCHANGED <<err, processed_data, preprocessVars, first_results, libraries>>

\* The dict of models, in insertion order, and the random_state each
\* constructor is given ("None": the estimator draws from the process-wide
\* generator, which nothing in the program seeds)
ModelNames == <<"Logistic Regression", "Random Forest", "Gradient Boosting", "SVM">>
RandomStateArg(name) == "None"
Seeds == 1..NSeeds
\* Estimators whose fit consumes random numbers that change what predict
\* returns: the forest's bootstrap samples, the boosting trees' feature
\* order.  (The logistic regression's solver draws none; the SVM draws them
\* only for its probability estimates, which predict does not use.)
FitIsRandomized(name) == name \in {"Random Forest", "Gradient Boosting"}
\* Estimators that refuse a training target with a single class
NeedsTwoClasses(name) == name \in {"Logistic Regression", "Gradient Boosting", "SVM"}

\* Squared distance of two rows scaled by one scaler
Distance2(a, b) ==
    SeqSum([j \in 1..Len(a) |->
              RDiv(RMul(RSub(a[j].dev, b[j].dev), RSub(a[j].dev, b[j].dev)), a[j].var)])

\* model.fit(X_train_scaled, y_train).  The learning algorithms are not
\* reproduced; a fitted model keeps the training rows it learnt from.  A
\* forest learns from bootstrap samples chosen by its random state (here:
\* the training rows without one that the seed picks); the others learn from
\* every training row.
Fit(name, X, y, seed) ==
    LET all == 1..Len(X)
        sample == IF name = "Random Forest" /\ Len(X) > 1
                  THEN all \ {(seed % Len(X)) + 1} ELSE all
    IN [name |-> name, fit_X |-> X, fit_y |-> y, sample |-> sample, seed |-> seed]

\* model.predict on one scaled row: the class of the nearest learnt rows; on
\* a tie between the classes a randomized estimator follows its random
\* state, the others answer the positive class
Predict(m, x) ==
    LET d == [i \in m.sample |-> Distance2(m.fit_X[i], x)]
        nearest == {i \in m.sample : \A k \in m.sample : RLe(d[i], d[k])}
        pos == Cardinality({i \in nearest : m.fit_y[i]})
        neg == Cardinality(nearest) - pos
    IN IF pos > neg THEN TRUE
       ELSE IF pos < neg THEN FALSE
       ELSE IF FitIsRandomized(m.name) THEN m.seed % 2 = 1
       ELSE TRUE

\* accuracy_score and precision_recall_fscore_support(average='binary')
Ratio(a, b) == IF b = 0 THEN Num(0) ELSE Rat(a, b)
Metrics(y_true, y_pred) ==
    LET n == Len(y_true)
        count(P(_)) == Cardinality({i \in 1..n : P(i)})
        tp == count(LAMBDA i : y_pred[i] /\ y_true[i])
        fp == count(LAMBDA i : y_pred[i] /\ ~y_true[i])
        fn == count(LAMBDA i : ~y_pred[i] /\ y_true[i])
        ok == count(LAMBDA i : y_pred[i] = y_true[i])
    IN [accuracy |-> Ratio(ok, n),
        precision |-> Ratio(tp, tp + fp),
        recall |-> Ratio(tp, tp + fn),
        f1_score |-> Ratio(2 * tp, (2 * tp) + fp + fn)]

\* ------------------------------------------------------ the SHAP summary
\* `if name in ['Random Forest', 'Logistic Regression']`
ExplainedModels == {"Random Forest", "Logistic Regression"}

RAbs(a) == IF IsNaN(a) THEN NaN ELSE <<Abs(a[1]), a[2]>>
RNeg(a) == IF IsNaN(a) THEN NaN ELSE <<-a[1], a[2]>>
Max2(a, b) == IF a > b THEN a ELSE b
Reverse(s) == [i \in 1..Len(s) |-> s[Len(s) + 1 - i]]

\* The explainers are not reproduced: the attribution of feature j to the
\* prediction for a scaled row is kept as the signed square of the row's
\* standardized deviation in that feature.
Attribution(m, x, j) == RDiv(RMul(x[j].dev, RAbs(x[j].dev)), x[j].var)

\* explainer.shap_values(X_test_scaled), an array a with ndim axes.
\* LinearExplainer gives (rows x features).  TreeExplainer gives the
\* attributions to each of the two classes, those to class 0 the negatives of
\* those to class 1, in the layout of the build.
ShapValues(name, m, X, build) ==
    LET rows == 1..Len(X)
        feats == 1..Len(X[1])
        phi == [i \in rows |-> [j \in feats |-> Attribution(m, X[i], j)]]
    IN IF name # "Random Forest" THEN [ndim |-> 2, a |-> phi]
       ELSE IF build.per_class = "list"
       THEN [ndim |-> 3,
             a |-> << [i \in rows |-> [j \in feats |-> RNeg(phi[i][j])]], phi >>]
       ELSE [ndim |-> 3,
             a |-> [i \in rows |-> [j \in feats |-> <<RNeg(phi[i][j]), phi[i][j]>>]]]

\* np.abs(a)
RECURSIVE NpAbs(_, _)
NpAbs(a, ndim) ==
    IF ndim = 0 THEN RAbs(a) ELSE [i \in 1..Len(a) |-> NpAbs(a[i], ndim - 1)]

\* a.mean(): the mean of all the cells
RECURSIVE NpCells(_, _)
NpCells(a, ndim) ==
    IF ndim = 0 THEN <<a>>
    ELSE Flatten([i \in 1..Len(a) |-> NpCells(a[i], ndim - 1)])
NpMean(a, ndim) ==
    LET cells == NpCells(a, ndim) IN RDiv(SeqSum(cells), Num(Len(cells)))

\* a.mean(axis=0): the first axis is averaged away, ndim - 1 axes are left
NpMeanAxis0(a, ndim) ==
    LET over(cell(_)) == RDiv(SeqSum([i \in 1..Len(a) |-> cell(a[i])]), Num(Len(a)))
    IN IF ndim = 2
       THEN [j \in 1..Len(a[1]) |-> over(LAMBDA r : r[j])]
       ELSE [j \in 1..Len(a[1]) |->
               [k \in 1..Len(a[1][1]) |-> over(LAMBDA r : r[j][k])]]

\* a.argsort(): along the last axis, the 0-based positions in ascending order
\* of the values (equal values in the order of their positions)
Argsort1(v) ==
    LET order == SortSeq([i \in 1..Len(v) |-> i],
                         LAMBDA p, q : RLt(v[p], v[q]) \/ (v[p] = v[q] /\ p < q))
    IN [i \in 1..Len(v) |-> order[i] - 1]
NpArgsort(a, ndim) ==
    IF ndim = 1 THEN Argsort1(a) ELSE [i \in 1..Len(a) |-> Argsort1(a[i])]

\* a[-5:][::-1]: the last five entries along the first axis, reversed
LastFiveReversed(a) == Reverse(SubSeq(a, Max2(1, Len(a) - 4), Len(a)))

\* list(X.columns[key]).  A 1-D key gives the names at its positions; a 2-D
\* key is refused or gives a 2-D array of names, whose list is one array of
\* names per row of the key.  An entry of the list is kept with the number of
\* axes it has: 0 for a name, 1 for an array of names.
ListOfColumns(names, key, ndim, build) ==
    IF ndim = 1
    THEN [raised |-> FALSE,
          value |-> [i \in 1..Len(key) |-> [ndim |-> 0, names |-> <<names[key[i] + 1]>>]]]
    ELSE IF build.index_2d = "ValueError"
    THEN [raised |-> TRUE, value |-> <<>>]
    ELSE [raised |-> FALSE,
          value |-> [i \in 1..Len(key) |->
                       [ndim |-> 1,
                        names |-> [k \in 1..Len(key[i]) |-> names[key[i][k] + 1]]]]]

\* results[name]['shap_summary'] = {...}
ShapSummary(shap_values, names, build) ==
    LET magnitude == NpAbs(shap_values.a, shap_values.ndim)
        by_axis0 == NpMeanAxis0(magnitude, shap_values.ndim)
        key == LastFiveReversed(NpArgsort(by_axis0, shap_values.ndim - 1))
        top == ListOfColumns(names, key, shap_values.ndim - 1, build)
    IN [raised |-> top.raised,
        value |-> [mean_abs_shap_value |-> NpMean(magnitude, shap_values.ndim),
                   top_features |-> top.value]]

\* Variant of Unhandled in which a failing classifier is skipped and the
\* loop goes on with the next one
UnhandledSkipped(index) == [pc |-> "training", model_index |-> index + 1]

\* An exception raised in the loop body is caught nowhere: the call ends
\* where it is
Unhandled(index) == [pc |-> "error", model_index |-> index]

\* One iteration of `for name, model in models.items()`
TrainModel ==
    /\ pc = "training"
    /\ model_index <= Len(ModelNames)
    /\ \E name \in {ModelNames[model_index]} :
       \E y_train \in {[i \in 1..Len(X_train) |-> Target(processed_data, X_train[i])]} :
       \E y_test \in {[i \in 1..Len(X_test) |-> Target(processed_data, X_test[i])]} :
          IF NeedsTwoClasses(name) /\ Cardinality(Range(y_train)) < 2
          THEN /\ pc' = Unhandled(model_index).pc
               /\ model_index' = Unhandled(model_index).model_index
               /\ err' = "train: ValueError in fit"
               /\ UNCHANGED <<models, results>>
          ELSE \E seed \in (IF FitIsRandomized(name) /\ RandomStateArg(name) = "None"
                             THEN Seeds ELSE {1}) :
               \E m \in {Fit(name, X_train_scaled, y_train, seed)} :
               \E y_pred \in {[i \in 1..Len(X_test_scaled) |-> Predict(m, X_test_scaled[i])]} :
               \E metrics \in {Metrics(y_test, y_pred)} :
                  IF name \notin ExplainedModels
                  THEN /\ models' = (name :> [fitted |-> m, eval_X |-> X_test_scaled]) @@ models
                       /\ results' = (name :> metrics) @@ results
                       /\ model_index' = model_index + 1
                       /\ UNCHANGED <<pc, err>>
                  ELSE \E shap_values \in {ShapValues(name, m, X_test_scaled, libraries)} :
                       \E summary \in {ShapSummary(shap_values,
                                                   FeatureNames(processed_data), libraries)} :
                          /\ models' = (name :> [fitted |-> m, eval_X |-> X_test_scaled,
                                                 shap_values |-> shap_values]) @@ models
                          /\ IF summary.raised
                             THEN /\ results' = (name :> metrics) @@ results
                                  /\ pc' = Unhandled(model_index).pc
                                  /\ model_index' = Unhandled(model_index).model_index
                                  /\ err' = "train: ValueError in shap_summary"
                             ELSE /\ results' =
                                       (name :> ([shap_summary |-> summary.value] @@ metrics))
                                       @@ results
                                  /\ model_index' = model_index + 1
                                  /\ UNCHANGED <<pc, err>>
    /\ UNCHANGED <<processed_data, preprocessVars, X_train, X_test, scaler,
                   X_train_scaled, X_test_scaled, run, first_results, libraries>>

\* return results
ReturnResults ==
    /\ pc = "training"
    /\ model_index > Len(ModelNames)
    /\ pc' = "returned"
    /\ UNCHANGED <<err, processed_data, preprocessVars, benchVars>>

\* train_classification_models is called once more on the same table
TrainAgain ==
    /\ pc = "returned"
    /\ run = 1
    /\ first_results' = results
    /\ pc' = "labeled"
    /\ UNCHANGED <<err, processed_data, preprocessVars, X_train, X_test, scaler,
                   X_train_scaled, X_test_scaled, models, results, model_index, run,
                   libraries>>

\* The labeled processed tables handed to train_classification_models:
\* the reduced components (one, or four so that the table has more than five
\* feature columns), the engagement score, the cluster id, and the label
\* cluster_financial_exclusion is to derive from them
BenchRowCounts == {MaxBenchRows - 1, MaxBenchRows}
ComponentChoices(n) ==
    { << [i \in 1..n |-> Num((i * i) % 5)] >>,
      << [i \in 1..n |-> Num(2)],
         [i \in 1..n |-> Num((i * i) % 5)],
         [i \in 1..n |-> Num(i % 3)],
         [i \in 1..n |-> Num((2 * i) % 7)] >> }
\* The cluster ids of the rows, of the shape KMeansLabelings gives them
ClusterChoices(n) ==
    { [i \in 1..n |-> IF i <= FreeClusterRows THEN f[i] ELSE rest] :
        f \in [1..FreeClusterRows -> 0..(NClusters - 1)], rest \in 0..(NClusters - 1) }
EngagementChoices(n) ==
    { [i \in 1..n |-> Rat(i, 10)], [i \in 1..n |-> Rat(n + 1 - i, 10)] }
LabeledTable(components, engagement, cluster) ==
    LET n == Len(cluster)
        t == [index |-> RangeIndex(n),
              columns |->
                 [j \in 1..Len(components) |->
                    [name |-> <<"PC" \o ToString(j)>>, dtype |-> "float64",
                     cells |-> components[j]]]
                 \o << [name |-> ColEngagement, dtype |-> "float64", cells |-> engagement],
                        [name |-> ColCluster, dtype |-> "int64",
                         cells |-> [i \in 1..n |-> Num(cluster[i])]] >>]
        low == PosIn(t.index, IdxMin(t, ColEngagement))
    IN AddColumn(t, ColLabel, "bool", [i \in 1..n |-> cluster[i] = cluster[low]])

InitBench ==
    /\ \E n \in BenchRowCounts :
         \E components \in ComponentChoices(n), engagement \in EngagementChoices(n),
            cluster \in ClusterChoices(n) :
           processed_data = LabeledTable(components, engagement, cluster)
    /\ pc = "labeled"
    /\ err = "none"
    /\ loaded = NoTable
    /\ raw_data = NoTable
    /\ numeric_columns = <<>>
    /\ categorical_columns = <<>>
    /\ categorical_encoded = NoTable
    /\ high_cardinality_columns = <<>>
    /\ numeric_scaled = NoTable
    /\ kmeans = NoKMeans
    /\ BenchIdle
    /\ libraries \in Builds

Next ==
    \/ Impute
    \/ Encode
    \/ Normalize
    \/ Combine
    \/ Reduce
    \/ CalculateEngagement
    \/ CalculateLiteracy
    \/ ClusterFinancialExclusion

Spec == Init /\ [][Next]_vars

NextBench ==
    \/ SplitAndScale
    \/ TrainModel
    \/ ReturnResults
    \/ TrainAgain

SpecBench == InitBench /\ [][NextBench]_vars

\* ============================================================ properties
Built == "src" \in DOMAIN processed_data
ImputationDone == pc # "loaded" /\ err # "impute: ValueError"
OriginalColumns == 1..Len(loaded.columns)
CountWhere(cells, P(_)) == Cardinality({i \in 1..Len(cells) : P(cells[i])})

\* C1: once cluster_financial_exclusion has fitted the clusterer and is over,
\* every respondent has a financial_exclusion_label, and it is true exactly
\* for the respondents whose exclusion_cluster equals that of the respondent
\* with the minimum financial_engagement_score.
C1_LabelFollowsMinEngagementCluster ==
    kmeans.fitted =>
        /\ HasColumn(processed_data, ColLabel)
        /\ LET cluster == Column(processed_data, ColCluster).cells
               label == Column(processed_data, ColLabel).cells
               low == PosIn(processed_data.index, IdxMin(processed_data, ColEngagement))
           IN /\ label[low] = TRUE
              /\ \A i \in 1..NRows(processed_data) :
                    label[i] = (cluster[i] = cluster[low])

\* C2: in the combined feature matrix every categorical column has exactly
\* one encoding: more than 10 distinct values give one '<col>_encoded' column
\* and no indicator column, at most 10 give one indicator column per distinct
\* value and no '<col>_encoded' column.
IndicatorsOf(t, name) ==
    {j \in 1..Len(t.columns) :
        t.columns[j].dtype = "bool" /\ t.columns[j].source = name}
C2_ExactlyOneEncoding ==
    pc = "combined" =>
        \A k \in 1..Len(categorical_columns) :
            LET name == categorical_columns[k]
                distinct == NUnique(Column(raw_data, name))
                indicators == Cardinality(IndicatorsOf(processed_data, name))
                coded == HasColumn(processed_data, EncodedName(name))
            IN IF distinct > CardinalityThreshold
               THEN coded /\ indicators = 0
               ELSE ~coded /\ indicators = distinct

\* C3: every table built from the raw table has as many rows as the raw
\* table, and its row i is derived from row i of the raw table.
C3_RowsStayAligned ==
    Built =>
        /\ NRows(processed_data) = NRows(loaded)
        /\ \A i \in 1..NRows(processed_data) :
              processed_data.src[i] = [num |-> i, cat |-> i, enc |-> i]

\* C4: when the education column holds a value that is not a key of the
\* education mapping, calculate_financial_literacy_score ends in an error
\* and writes no financial_literacy_score column.
UnmappedEducation ==
    \E i \in 1..NRows(raw_data) :
        Column(raw_data, ColEducation).cells[i] \notin DOMAIN education_mapping
LiteracyOver == HasColumn(processed_data, ColLiteracy) \/ err = "literacy: error"
C4_UnmappedEducationIsAnError ==
    (LiteracyOver /\ UnmappedEducation) =>
        /\ err = "literacy: error"
        /\ ~HasColumn(processed_data, ColLiteracy)

\* C5: two runs of train_classification_models on the same labeled table
\* report the same accuracy, precision, recall and F1 for every classifier.
C5_RunsReportSameMetrics ==
    (pc = "returned" /\ run = 2) => results = first_results

\* C6: after imputation no cell of the raw table is missing; a cell that was
\* missing in a numeric column holds the median of the column's original
\* non-missing values, one that was missing in a categorical column holds a
\* most frequent original non-missing value, and every other cell is unchanged.
OrderStatistic(cells, r) ==
    CHOOSE v \in Range(cells) :
        /\ CountWhere(cells, LAMBDA x : RLt(x, v)) < r
        /\ r <= CountWhere(cells, LAMBDA x : RLe(x, v))
MedianOf(cells) ==
    LET nn == NonMissingNumbers(cells)
        k == Len(nn)
    IN RDiv(RAdd(OrderStatistic(nn, (k + 1) \div 2),
                 OrderStatistic(nn, (k \div 2) + 1)), Num(2))
ModesOf(cells) ==
    LET vals == Range(cells) \ {NA}
    IN {m \in vals : \A w \in vals :
          Cardinality(Positions(cells, w)) <= Cardinality(Positions(cells, m))}
C6_ImputationFillsMedianAndMode ==
    ImputationDone =>
        \A j \in OriginalColumns :
            LET before == loaded.columns[j]
                after == raw_data.columns[j]
                median == MedianOf(before.cells)
                modes == ModesOf(before.cells)
            IN \A i \in 1..NRows(loaded) :
                 /\ ~IsMissing(after, i)
                 /\ IF IsMissing(before, i)
                    THEN IF before.dtype = "object"
                         THEN after.cells[i] \in modes
                         ELSE after.cells[i] = median
                    ELSE after.cells[i] = before.cells[i]
C6_Witness ==
    /\ pc = "imputed"
    /\ \E i \in 1..NRows(loaded) :
          /\ IsNaN(Column(loaded, ColTransaction).cells[i])
          /\ Column(raw_data, ColTransaction).cells[i]
                \notin Range(Column(loaded, ColTransaction).cells)
    /\ \E i \in 1..NRows(loaded) :
          /\ Column(loaded, ColEducation).cells[i] = NA
          /\ Column(raw_data, ColEducation).cells[i] # NA

\* C7 as stated: after normalization every value of every numeric column is
\* in [0,1], the column's minimum is mapped to 0 and its maximum to 1, a
\* constant column included.
Normalized == numeric_scaled # NoTable
InUnitInterval(x) == ~IsNaN(x) /\ RLe(Num(0), x) /\ RLe(x, Num(1))
MinOf(cells) == CHOOSE x \in Range(cells) : \A y \in Range(cells) : RLe(x, y)
MaxOf(cells) == CHOOSE x \in Range(cells) : \A y \in Range(cells) : RLe(y, x)
C7_EveryColumnSpansUnitInterval ==
    Normalized =>
        \A j \in 1..Len(numeric_scaled.columns) :
            LET x == Column(raw_data, numeric_scaled.columns[j].name).cells
                y == numeric_scaled.columns[j].cells
                lo == MinOf(x)
                hi == MaxOf(x)
            IN \A i \in 1..Len(x) :
                 /\ InUnitInterval(y[i])
                 /\ x[i] = lo => y[i] = Num(0)
                 /\ x[i] = hi => y[i] = Num(1)

\* C7 amended: every value is in [0,1] and the minimum is mapped to 0; in a
\* column with min < max every value is (x - min) / (max - min), so the
\* maximum is mapped to 1; in a constant column every value is mapped to 0.
C7_UnitIntervalUnlessConstant ==
    Normalized =>
        \A j \in 1..Len(numeric_scaled.columns) :
            LET x == Column(raw_data, numeric_scaled.columns[j].name).cells
                y == numeric_scaled.columns[j].cells
                lo == MinOf(x)
                hi == MaxOf(x)
            IN \A i \in 1..Len(x) :
                 /\ InUnitInterval(y[i])
                 /\ x[i] = lo => y[i] = Num(0)
                 /\ IF lo = hi THEN y[i] = Num(0)
                    ELSE /\ y[i] = RDiv(RSub(x[i], lo), RSub(hi, lo))
                         /\ (x[i] = hi => y[i] = Num(1))
C7_Witness ==
    /\ pc = "normalized"
    /\ \E j \in 1..Len(numeric_scaled.columns) :
          LET x == Column(raw_data, numeric_scaled.columns[j].name).cells
          IN Cardinality(Range(x)) = 1
    /\ \E j \in 1..Len(numeric_scaled.columns) :
          LET x == Column(raw_data, numeric_scaled.columns[j].name).cells
              y == numeric_scaled.columns[j].cells
          IN /\ Cardinality(Range(x)) > 2
             /\ \E i \in 1..Len(y) : y[i] \notin {Num(0), Num(1)}

\* C8: in the one-hot expansion built after imputation, every row has
\* exactly one indicator equal to 1, and the others 0, among the indicators
\* of each categorical column with at most 10 distinct values.
Encoded == categorical_encoded # NoTable
C8_IndicatorsSumToOne ==
    Encoded =>
        \A k \in 1..Len(categorical_columns) :
            LET name == categorical_columns[k]
                ind == IndicatorsOf(categorical_encoded, name)
            IN NUnique(Column(raw_data, name)) <= CardinalityThreshold =>
                 \A i \in 1..NRows(raw_data) :
                    /\ Cardinality({j \in ind :
                          categorical_encoded.columns[j].cells[i] = Num(1)}) = 1
                    /\ \A j \in ind :
                          categorical_encoded.columns[j].cells[i] \in {Num(0), Num(1)}
C8_Witness ==
    /\ pc = "encoded"
    /\ \E k \in 1..Len(categorical_columns) :
          LET name == categorical_columns[k]
          IN /\ NUnique(Column(raw_data, name)) <= CardinalityThreshold
             /\ Cardinality(IndicatorsOf(categorical_encoded, name)) >= 2
             /\ HasMissing(Column(loaded, name))

\* C9: every financial_engagement_score and financial_literacy_score written
\* to the processed table is a defined number in [0,1].
C9_ScoresAreDefinedInUnitInterval ==
    \A name \in {ColEngagement, ColLiteracy} :
        (Built /\ HasColumn(processed_data, name)) =>
            \A i \in 1..NRows(processed_data) :
                InUnitInterval(Column(processed_data, name).cells[i])

\* C10: the training and test rows are a disjoint partition of the labeled
\* rows with a fifth of them (rounded up) in the test set; the scaler's mean
\* and variance are those of the training rows only and both sets are scaled
\* with them; every classifier is fitted on that scaled training set and
\* evaluated on that scaled test set.
SplitDone == run >= 1 /\ pc # "labeled"
ColumnMean(rows, j) ==
    RDiv(SeqSum([i \in 1..Len(rows) |-> rows[i][j]]), Num(Len(rows)))
ColumnVariance(rows, j) ==
    RSub(RDiv(SeqSum([i \in 1..Len(rows) |-> RMul(rows[i][j], rows[i][j])]),
              Num(Len(rows))),
         RMul(ColumnMean(rows, j), ColumnMean(rows, j)))
ScaledWith(scaled, rows, mean, var) ==
    /\ Len(scaled) = Len(rows)
    /\ \A i \in 1..Len(rows) : \A j \in 1..Len(mean) :
          /\ scaled[i][j].dev = RSub(rows[i][j], mean[j])
          /\ scaled[i][j].var = (IF var[j] = Num(0) THEN Num(1) ELSE var[j])
C10_OneSplitScalerFittedOnTrain ==
    SplitDone =>
        \E n \in {NRows(processed_data)} :
        \E train \in {[i \in 1..Len(X_train) |-> FeatureVector(processed_data, X_train[i])]} :
        \E test \in {[i \in 1..Len(X_test) |-> FeatureVector(processed_data, X_test[i])]} :
        \E width \in {Len(FeatureNames(processed_data))} :
        \E mean \in {[j \in 1..width |-> ColumnMean(train, j)]} :
        \E var \in {[j \in 1..width |-> ColumnVariance(train, j)]} :
           /\ Range(X_train) \cap Range(X_test) = {}
           /\ Range(X_train) \cup Range(X_test) = 1..n
           /\ Len(X_train) + Len(X_test) = n
           /\ 5 * Len(X_test) >= n
           /\ 5 * (Len(X_test) - 1) < n
           /\ scaler.mean_ = mean
           /\ scaler.var_ = var
           /\ ScaledWith(X_train_scaled, train, mean, var)
           /\ ScaledWith(X_test_scaled, test, mean, var)
           /\ \A name \in DOMAIN models :
                 /\ models[name].fitted.fit_X = X_train_scaled
                 /\ models[name].fitted.fit_y =
                       [i \in 1..Len(X_train) |-> Target(processed_data, X_train[i])]
                 /\ models[name].eval_X = X_test_scaled
C10_Witness ==
    /\ pc = "returned"
    /\ DOMAIN models = Range(ModelNames)
    /\ X_test # <<>>
    /\ \E j \in 1..Len(scaler.mean_) :
          scaler.mean_[j] #
             ColumnMean([i \in 1..NRows(processed_data) |->
                            FeatureVector(processed_data, i)], j)

\* C12: the vector with which the fitted clusterer is re-queried holds
\* exactly the columns the clusterer was fitted on, the exclusion_cluster
\* column is not among them, the re-query does not fail, and the respondent
\* with the minimum engagement score is labeled with its own cluster.
\* The re-queried row is taken from the processed table after
\* exclusion_cluster was written and before the label is: its columns are
\* the columns of the table other than the label.
RequeryColumns == SelectSeq(ColumnNames(processed_data), LAMBDA nm : nm # ColLabel)
C12_RequeryUsesFittedColumns ==
    kmeans.fitted =>
        /\ RequeryColumns = kmeans.feature_names_in_
        /\ ColCluster \notin Range(RequeryColumns)
        /\ err # "cluster: ValueError in predict"
        /\ pc = "clustered"

\* C13: when the engagement calculator has run, the raw table has the
\* columns it was loaded with, each classified numeric or categorical as it
\* was loaded, and the calculator's two selections are the loaded columns
\* whose name contains 'transaction' resp. 'savings'.
EngagementRan == HasColumn(processed_data, ColEngagement) \/ err = "engagement: ValueError"
Classification(t) ==
    [j \in 1..Len(t.columns) |->
        [name |-> t.columns[j].name, numeric |-> IsNumericDtype(t.columns[j].dtype)]]
C13_CalculatorsSeeLoadedSchema ==
    EngagementRan =>
        /\ Classification(raw_data) = Classification(loaded)
        /\ \A word \in {"transaction", "savings"} :
              ColumnsContaining(raw_data, word) = ColumnsContaining(loaded, word)

\* C11: when train_classification_models has returned, the result holds one
\* record for each of the four classifiers, each with accuracy, precision,
\* recall and f1_score; a shap_summary is present exactly for 'Logistic
\* Regression' and 'Random Forest'; its top_features list holds at most 5
\* names of feature columns, in descending order of the mean absolute
\* attribution of the feature, and no feature left out has a larger one.
MetricNames == {"accuracy", "precision", "recall", "f1_score"}
\* The mean of |attribution| of feature j over the test rows (and classes)
MeanAbsAttribution(shap_values, per_class, j) ==
    LET a == shap_values.a
        cells == IF shap_values.ndim = 2 THEN [i \in 1..Len(a) |-> a[i][j]]
                 ELSE IF per_class = "list"
                 THEN Flatten([c \in 1..Len(a) |-> [i \in 1..Len(a[c]) |-> a[c][i][j]]])
                 ELSE Flatten([i \in 1..Len(a) |-> a[i][j]])
    IN RDiv(SeqSum([i \in 1..Len(cells) |-> RAbs(cells[i])]), Num(Len(cells)))
TopFeaturesRanked(name) ==
    \E names \in {FeatureNames(processed_data)} :
    \E top \in {results[name].shap_summary.top_features} :
    \E score \in {[j \in 1..Len(names) |->
                     MeanAbsAttribution(models[name].shap_values, libraries.per_class, j)]} :
       /\ Len(top) = Min2(5, Len(names))
       /\ \A e \in 1..Len(top) : top[e].ndim = 0 /\ top[e].names[1] \in Range(names)
       /\ \E at \in {[e \in 1..Len(top) |-> PosIn(names, top[e].names[1])]} :
             /\ \A e, f \in 1..Len(top) : e < f => at[e] # at[f] /\ RLe(score[at[f]], score[at[e]])
             /\ \A j \in 1..Len(names) : \A e \in 1..Len(top) :
                   j \notin Range(at) => RLe(score[j], score[at[e]])
C11_FourRecordsWithRankedTopFeatures ==
    pc = "returned" =>
        /\ DOMAIN results = Range(ModelNames)
        /\ Cardinality(DOMAIN results) = 4
        /\ \A name \in DOMAIN results :
              /\ MetricNames \subseteq DOMAIN results[name]
              /\ ("shap_summary" \in DOMAIN results[name]) <=> (name \in ExplainedModels)
              /\ name \in ExplainedModels => TopFeaturesRanked(name)

\* The same for the linear model alone
C11_LinearTopFeaturesRanked ==
    ("Logistic Regression" \in DOMAIN results
        /\ "shap_summary" \in DOMAIN results["Logistic Regression"])
    => TopFeaturesRanked("Logistic Regression")

\* C14: a failure in the loop of train_classification_models ends the call
\* in an error: no step is taken after it, the call has not returned, no
\* classifier after the failing one has been trained, and the failing step
\* leaves the records of the earlier classifiers as they were.
Failed == err # "none"
C14_FailureAbortsTheCall ==
    [][ /\ ~Failed
        /\ Failed' =>
             /\ pc' = "error"
             /\ model_index' = model_index
             /\ \A k \in (model_index + 1)..Len(ModelNames) :
                   ModelNames[k] \notin (DOMAIN models' \cup DOMAIN results')
             /\ \A k \in 1..(model_index - 1) :
                   /\ ModelNames[k] \in DOMAIN results'
                   /\ results'[ModelNames[k]] = results[ModelNames[k]] ]_vars
C14_Witness ==
    /\ pc = "error"
    /\ err = "train: ValueError in shap_summary"
    /\ model_index = 2
    /\ "Logistic Regression" \in DOMAIN results
    /\ "Gradient Boosting" \notin DOMAIN models

\* C15: the feature matrix X holds every column of the processed table but
\* financial_exclusion_label, exclusion_cluster among them, and on the
\* training rows and on the test rows two rows with the same
\* exclusion_cluster have the same target.
ClusterFeature == PosIn(FeatureNames(processed_data), ColCluster)
TargetFollowsCluster(rows) ==
    \A a, b \in Range(rows) :
        FeatureVector(processed_data, a)[ClusterFeature]
            = FeatureVector(processed_data, b)[ClusterFeature]
        => Target(processed_data, a) = Target(processed_data, b)
C15_ClusterColumnIsAFeature ==
    SplitDone =>
        /\ Range(FeatureNames(processed_data)) = Range(ColumnNames(processed_data)) \ {ColLabel}
        /\ Len(FeatureNames(processed_data)) = Len(processed_data.columns) - 1
        /\ Len(scaler.mean_) = Len(processed_data.columns) - 1
        /\ ClusterFeature # 0
        /\ TargetFollowsCluster(X_train)
        /\ TargetFollowsCluster(X_test)
        /\ TargetFollowsCluster(X_train \o X_test)
C15_Witness ==
    /\ pc = "training"
    /\ Len(X_test) >= 1
    /\ \E a, b \in Range(X_train) :
          Target(processed_data, a) # Target(processed_data, b)

====
